---- MODULE Spec2Model ----
(***************************************************************************)
(* A model of the two Ansible modules of the collection:                   *)
(*   plugins/modules/channel.py  (NixChannel, drives nix-channel)          *)
(*   plugins/modules/env.py      (NixEnv, drives nix-env)                  *)
(*                                                                         *)
(* A Python str is a sequence of one-character strings, so that join,      *)
(* split, format and argument unpacking are computed character by          *)
(* character as Python computes them.  A Python value that may or may not  *)
(* be a str is a record [t, v]: t is its type, v its text.                 *)
(***************************************************************************)
EXTENDS Integers, Sequences, FiniteSets, TLC

VARIABLES
  prog,        \* which module the process runs: "channel" or "env"
  check_mode,  \* self.module.check_mode
  raw,         \* the module arguments as the caller passed them
  params,      \* self.module.params, once validated
  pc,          \* position of the process
  bin_path,    \* self.bin_path
  changed,     \* self.result['changed']
  listed,      \* run_remove's local `channels` (the parsed list)
  idx,         \* position of the running for-loop
  calls,       \* the external invocations of this run, in order, with exit status
  target,      \* the channels of the managed target (the state nix-channel edits)
  target0,     \* the target when this run started
  files,       \* the temporary files written by this run: path -> content
  config_path, \* run_install's config_path
  defexpr_path,\* run_install's defexpr_path
  error,       \* why the run failed, once it has
  run,         \* number of the current run of main()
  history      \* what the earlier runs left: outcome, calls, target, changed

vars == <<prog, check_mode, raw, params, pc, bin_path, changed, listed, idx,
          calls, target, target0, files, config_path, defexpr_path, error, run,
          history>>

----------------------------------------------------------------------------
(* Bounds of the model. *)

MaxRuns == 2
MaxChannels == 2
MaxObserved == 2
MaxPackages == 2
MaxNames == 2

----------------------------------------------------------------------------
(* Python values and str operations. *)

PyStr(s) == [t |-> "str", v |-> s]
PyInt(digits) == [t |-> "int", v |-> digits]
PyNone == [t |-> "none", v |-> <<>>]

RECURSIVE Join(_, _)
\* sep.join(parts)
Join(sep, parts) ==
  IF parts = <<>> THEN <<>>
  ELSE IF Len(parts) = 1 THEN parts[1]
  ELSE parts[1] \o sep \o Join(sep, Tail(parts))

RECURSIVE SplitOn(_, _)
\* s.split(c) for a one-character separator c: always at least one piece
SplitOn(s, c) ==
  IF \E k \in 1..Len(s) : s[k] = c
  THEN LET k == CHOOSE k \in 1..Len(s) : s[k] = c /\ \A j \in 1..(k-1) : s[j] # c
       IN  <<SubSeq(s, 1, k-1)>> \o SplitOn(SubSeq(s, k+1, Len(s)), c)
  ELSE <<s>>

\* s.splitlines(): the pieces between line breaks, no empty piece after a final break
SplitLines(s) ==
  IF s = <<>> THEN <<>>
  ELSE LET pieces == SplitOn(s, "\n")
       IN  IF s[Len(s)] = "\n" THEN SubSeq(pieces, 1, Len(pieces) - 1) ELSE pieces

RECURSIVE LStrip(_)
\* s with its leading blanks dropped
LStrip(s) == IF s # <<>> /\ s[1] = " " THEN LStrip(Tail(s)) ELSE s

\* line.split(maxsplit=1): leading blanks dropped, the first field, then the rest
\* (its own leading blanks dropped) if anything is left
SplitMax1(line) ==
  LET s == LStrip(line)
  IN  IF s = <<>> THEN <<>>
      ELSE LET first == SplitOn(s, " ")[1]
               rest == LStrip(SubSeq(s, Len(first) + 1, Len(s)))
           IN  IF rest = <<>> THEN <<first>> ELSE <<first, rest>>

----------------------------------------------------------------------------
(* ansible.module_utils.common.validation, as the modules import it. *)

\* check_type_str(value) raises for None only (allow_conversion is left at its default)
check_type_str_ok(value) == value.t # "none"

\* check_type_str(value), when it does not raise: a str as it is, anything else as
\* its text
check_type_str(value) == PyStr(value.v)

\* check_type_dict(value): a dict passes; a list raises
check_type_dict_ok(value) == value.shape = "dict"

----------------------------------------------------------------------------
(* Text literals. *)

S_nix_channel == <<"n","i","x","-","c","h","a","n","n","e","l">>
S_nix_env == <<"n","i","x","-","e","n","v">>
S_list == <<"-","-","l","i","s","t">>
S_remove == <<"-","-","r","e","m","o","v","e">>
S_add == <<"-","-","a","d","d">>
S_update == <<"-","-","u","p","d","a","t","e">>
S_dry_run == <<"-","-","d","r","y","-","r","u","n">>
S_f == <<"-","f">>
S_ir == <<"-","i","r">>
S_let_open == <<"l","e","t","\n"," "," ">>
S_in_open == <<"\n","i","n"," ","{","\n"," "," ">>
S_close == <<"\n","}","\n">>
S_indent == <<"\n"," "," ">>
S_import_open == <<" ","="," ","i","m","p","o","r","t"," ","<">>
S_import_close == <<">"," ">>
S_braces == <<"{","}">>
S_inherit_open == <<"i","n","h","e","r","i","t"," ","(">>
S_inherit_close == <<")"," ">>
S_tmp == <<"/","t","m","p","/","t","m","p">>
Digits == <<"1","2","3","4","5","6","7","8","9">>
S_NIXPKGS_CONFIG == <<"N","I","X","P","K","G","S","_","C","O","N","F","I","G">>

----------------------------------------------------------------------------
(* The inputs the model draws. *)

NameSet == {<<"a">>, <<"b">>}
UrlSet == {<<"u">>, <<"v">>}
\* a declared value: a URL, a number, or null
ValueSet == {PyStr(u) : u \in UrlSet} \cup {PyInt(<<"5">>), PyNone}

\* the sequences of at most n pairs <<key, x>>, keys distinct, x from xs
PairSeqs(keys, xs, n) ==
  UNION {{s \in [1..k -> keys \X xs] : \A p, q \in 1..k : p # q => s[p][1] # s[q][1]}
         : k \in 0..n}

\* the `channels` argument: a dict in insertion order, or something that is no dict
ChannelArgs ==
  {[shape |-> "dict", items |-> s] : s \in PairSeqs(NameSet, ValueSet, MaxChannels)}
  \cup {[shape |-> "list", items |-> <<>>]}

\* the channels of the target: name and URL, names distinct; an entry may lack its URL
Targets == PairSeqs(NameSet, UrlSet \cup {<<>>}, MaxObserved)

\* the `packages` argument: channel -> list of names, in insertion order, or no dict
PkgSet == {<<"x">>, <<"y","z">>}
NameLists == UNION {[1..k -> PkgSet] : k \in 0..MaxNames}
PackageArgs ==
  {[shape |-> "dict", items |-> s] : s \in PairSeqs(NameSet, NameLists, MaxPackages)}
  \cup {[shape |-> "list", items |-> <<>>]}

\* the `config` argument: the default '{}', or null
ConfigArgs == {PyStr(<<"{","}">>), PyNone}

NoArgs == [shape |-> "dict", items |-> <<>>]
NoParams == [channels |-> NoArgs, config |-> PyNone, packages |-> NoArgs]

----------------------------------------------------------------------------
(* The external tools, as the modules drive them. *)

\* what `nix-channel --list` prints: one line `<name> <url>` per channel
ListOutput(t) ==
  Join(<<>>, [k \in 1..Len(t) |-> t[k][1] \o <<" ">> \o t[k][2] \o <<"\n">>])

\* the target after `nix-channel --add <url> <name>`: name -> url
AddChannel(t, url, name) ==
  IF \E k \in 1..Len(t) : t[k][1] = name
  THEN [k \in 1..Len(t) |-> IF t[k][1] = name THEN <<name, url>> ELSE t[k]]
  ELSE Append(t, <<name, url>>)

\* the target after `nix-channel --remove <name>`
RemoveChannel(t, name) == SelectSeq(t, LAMBDA e : e[1] # name)

\* the target after a command that exited 0
Effect(t, args) ==
  IF Len(args) = 3 /\ args[1] = S_nix_channel /\ args[2] = S_remove
    THEN RemoveChannel(t, args[3])
  ELSE IF Len(args) = 4 /\ args[1] = S_nix_channel /\ args[2] = S_add
    THEN AddChannel(t, args[3], args[4])
  ELSE t

\* the exit statuses a command may return
ExitCodes == {0, 1}

\* a run_command that lets a non-zero status pass
check_rc_off == FALSE

\* run_command(..., check_rc=True)
check_rc == TRUE

\* self.module.run_command(args, check_rc=True, environ_update=environ): the command
\* runs to its end; a non-zero status ends the run in fail_json, else `next` follows
\* (a command that exits non-zero is taken to have left the target as it was)
RunCommand(args, environ, rc, next) ==
  /\ calls' = Append(calls, [args |-> args, environ |-> environ, rc |-> rc])
  /\ target' = IF rc = 0 THEN Effect(target, args) ELSE target
  /\ IF rc # 0 /\ check_rc
       THEN pc' = "failed" /\ error' = "command"
       ELSE pc' = next /\ error' = error

\* "' '".join(args) raises TypeError unless every argument is a str
JoinRaises(args) == \E k \in 1..Len(args) : args[k].t # "str"

----------------------------------------------------------------------------
(* channel.py *)

\* CheckTypeChannels.__call__ raises
CheckTypeChannelsRaises(channels) ==
  \/ ~check_type_dict_ok(channels)
  \/ \E k \in 1..Len(channels.items) :
       \/ ~check_type_str_ok(PyStr(channels.items[k][1]))
       \/ ~check_type_str_ok(channels.items[k][2])

\* CheckTypeChannels.__call__ returns the dict it was given: the converted name and
\* url are bound to the loop's own variables and dropped
CheckTypeChannels(channels) ==
  [shape |-> "dict",
   items |-> [k \in 1..Len(channels.items) |->
                LET name == check_type_str(PyStr(channels.items[k][1]))
                    url == check_type_str(channels.items[k][2])
                IN  channels.items[k]]]

\* NixChannel.__init__: AnsibleModule checks `channels` with CheckTypeChannels
NixChannel_init ==
  /\ prog = "channel" /\ pc = "init"
  /\ IF CheckTypeChannelsRaises(raw.channels)
       THEN /\ pc' = "failed" /\ error' = "validation"
            /\ UNCHANGED params
       ELSE /\ pc' = "get_bin_path" /\ error' = error
            /\ params' = [params EXCEPT !.channels = CheckTypeChannels(raw.channels)]
  /\ changed' = FALSE
  /\ UNCHANGED <<prog, check_mode, raw, bin_path, listed, idx, calls, target,
                 target0, files, config_path, defexpr_path, run, history>>

\* NixChannel.run: get_bin_path('nix-channel', required=True)
NixChannel_get_bin_path ==
  /\ prog = "channel" /\ pc = "get_bin_path"
  /\ \E found \in BOOLEAN :
       IF found
         THEN bin_path' = S_nix_channel /\ pc' = "run_list" /\ error' = error
         ELSE bin_path' = bin_path /\ pc' = "failed" /\ error' = "bin_path"
  /\ UNCHANGED <<prog, check_mode, raw, params, changed, listed, idx, calls, target,
                 target0, files, config_path, defexpr_path, run, history>>

\* run_list: args = [self.bin_path, '--list']
ListArgs == <<bin_path, S_list>>

\* a parse that takes the first line for a heading
ParseListSkipFirst(stdout) ==
  LET lines == SplitLines(stdout)
  IN  [k \in 1..(Len(lines) - 1) |-> SplitMax1(lines[k + 1])]

\* run_list: [tuple(line.split(maxsplit=1)) for line in stdout.splitlines()]
ParseList(stdout) ==
  LET lines == SplitLines(stdout)
  IN  [k \in 1..Len(lines) |-> SplitMax1(lines[k])]

\* run_list, called by run_remove
run_list ==
  /\ prog = "channel" /\ pc = "run_list"
  /\ \E rc \in ExitCodes :
       /\ RunCommand(ListArgs, <<>>, rc, "run_remove")
       /\ listed' = IF pc' = "run_remove" THEN ParseList(ListOutput(target)) ELSE listed
  /\ UNCHANGED <<prog, check_mode, raw, params, bin_path, changed, idx, target0,
                 files, config_path, defexpr_path, run, history>>

\* run_remove: `if self.module.check_mode: return`
run_remove_check_mode ==
  /\ prog = "channel" /\ pc = "run_remove" /\ check_mode
  /\ pc' = "run_add"
  /\ UNCHANGED <<prog, check_mode, raw, params, bin_path, changed, listed, idx,
                 calls, target, target0, files, config_path, defexpr_path, error,
                 run, history>>

\* run_remove: self.result['changed'] = True, then the loop starts
run_remove_begin ==
  /\ prog = "channel" /\ pc = "run_remove" /\ ~check_mode
  /\ changed' = TRUE
  /\ idx' = 1
  /\ pc' = "run_remove_loop"
  /\ UNCHANGED <<prog, check_mode, raw, params, bin_path, listed, calls, target,
                 target0, files, config_path, defexpr_path, error, run, history>>

\* a loop that binds the second field of the entry for the name
RemoveArgsSecondField(entry) == <<bin_path, S_remove, entry[2]>>

\* run_remove: args = [self.bin_path, '--remove', name]
RemoveArgs(entry) == <<bin_path, S_remove, entry[1]>>

\* run_remove: `for name, _ in channels` on an entry that is no pair raises ValueError
run_remove_unpack_error ==
  /\ prog = "channel" /\ pc = "run_remove_loop"
  /\ idx <= Len(listed) /\ Len(listed[idx]) # 2
  /\ pc' = "crashed" /\ error' = "exception"
  /\ UNCHANGED <<prog, check_mode, raw, params, bin_path, changed, listed, idx,
                 calls, target, target0, files, config_path, defexpr_path, run,
                 history>>

\* run_remove: one turn of the loop
run_remove_step ==
  /\ prog = "channel" /\ pc = "run_remove_loop"
  /\ idx <= Len(listed) /\ Len(listed[idx]) = 2
  /\ \E rc \in ExitCodes : RunCommand(RemoveArgs(listed[idx]), <<>>, rc, "run_remove_loop")
  /\ idx' = idx + 1
  /\ UNCHANGED <<prog, check_mode, raw, params, bin_path, changed, listed, target0,
                 files, config_path, defexpr_path, run, history>>

\* run_remove: the loop is over
run_remove_end ==
  /\ prog = "channel" /\ pc = "run_remove_loop"
  /\ idx > Len(listed)
  /\ pc' = "run_add"
  /\ UNCHANGED <<prog, check_mode, raw, params, bin_path, changed, listed, idx,
                 calls, target, target0, files, config_path, defexpr_path, error,
                 run, history>>

\* run_add: `if self.module.check_mode: return`
run_add_check_mode ==
  /\ prog = "channel" /\ pc = "run_add" /\ check_mode
  /\ pc' = "run_update"
  /\ UNCHANGED <<prog, check_mode, raw, params, bin_path, changed, listed, idx,
                 calls, target, target0, files, config_path, defexpr_path, error,
                 run, history>>

\* run_add: self.result['changed'] = True, then the loop starts
run_add_begin ==
  /\ prog = "channel" /\ pc = "run_add" /\ ~check_mode
  /\ changed' = TRUE
  /\ idx' = 1
  /\ pc' = "run_add_loop"
  /\ UNCHANGED <<prog, check_mode, raw, params, bin_path, listed, calls, target,
                 target0, files, config_path, defexpr_path, error, run, history>>

\* an argument list with the name before the url
AddArgsNameFirst(name, url) == <<PyStr(bin_path), PyStr(S_add), PyStr(name), url>>

\* run_add: args = [self.bin_path, '--add', url, name]
AddArgs(name, url) == <<PyStr(bin_path), PyStr(S_add), url, PyStr(name)>>

\* the text of arguments that are all str
Texts(args) == [k \in 1..Len(args) |-> args[k].v]

\* run_add: building the log line raises TypeError when the url is no str
run_add_join_error ==
  /\ prog = "channel" /\ pc = "run_add_loop"
  /\ idx <= Len(params.channels.items)
  /\ JoinRaises(AddArgs(params.channels.items[idx][1], params.channels.items[idx][2]))
  /\ pc' = "crashed" /\ error' = "exception"
  /\ UNCHANGED <<prog, check_mode, raw, params, bin_path, changed, listed, idx,
                 calls, target, target0, files, config_path, defexpr_path, run,
                 history>>

\* run_add: one turn of the loop
run_add_step ==
  /\ prog = "channel" /\ pc = "run_add_loop"
  /\ idx <= Len(params.channels.items)
  /\ LET args == AddArgs(params.channels.items[idx][1], params.channels.items[idx][2])
     IN  /\ ~JoinRaises(args)
         /\ \E rc \in ExitCodes : RunCommand(Texts(args), <<>>, rc, "run_add_loop")
  /\ idx' = idx + 1
  /\ UNCHANGED <<prog, check_mode, raw, params, bin_path, changed, listed, target0,
                 files, config_path, defexpr_path, run, history>>

\* run_add: the loop is over
run_add_end ==
  /\ prog = "channel" /\ pc = "run_add_loop"
  /\ idx > Len(params.channels.items)
  /\ pc' = "run_update"
  /\ UNCHANGED <<prog, check_mode, raw, params, bin_path, changed, listed, idx,
                 calls, target, target0, files, config_path, defexpr_path, error,
                 run, history>>

\* run_update: args = [self.bin_path, '--update']
UpdateArgs == <<bin_path, S_update>>

\* a run_update that does not look at check_mode
run_update_unguarded ==
  /\ prog = "channel" /\ pc = "run_update" /\ check_mode
  /\ changed' = TRUE
  /\ \E rc \in ExitCodes : RunCommand(UpdateArgs, <<>>, rc, "exit_json")
  /\ UNCHANGED <<prog, check_mode, raw, params, bin_path, listed, idx, target0,
                 files, config_path, defexpr_path, run, history>>

\* run_update: `if self.module.check_mode: return`
run_update_check_mode ==
  /\ prog = "channel" /\ pc = "run_update" /\ check_mode
  /\ pc' = "exit_json"
  /\ UNCHANGED <<prog, check_mode, raw, params, bin_path, changed, listed, idx,
                 calls, target, target0, files, config_path, defexpr_path, error,
                 run, history>>

\* run_update outside check mode: self.result['changed'] = True, then the command
run_update ==
  /\ prog = "channel" /\ pc = "run_update" /\ ~check_mode
  /\ changed' = TRUE
  /\ \E rc \in ExitCodes : RunCommand(UpdateArgs, <<>>, rc, "exit_json")
  /\ UNCHANGED <<prog, check_mode, raw, params, bin_path, listed, idx, target0,
                 files, config_path, defexpr_path, run, history>>

\* run: self.module.exit_json(**self.result)
exit_json ==
  /\ pc = "exit_json"
  /\ pc' = "done"
  /\ UNCHANGED <<prog, check_mode, raw, params, bin_path, changed, listed, idx,
                 calls, target, target0, files, config_path, defexpr_path, error,
                 run, history>>

----------------------------------------------------------------------------
(* env.py *)

\* CheckTypeConfig.__call__ raises
CheckTypeConfigRaises(config) == ~check_type_str_ok(config)

\* CheckTypeConfig.__call__
CheckTypeConfig(config) == check_type_str(config)

\* CheckTypePackages.__call__ raises
CheckTypePackagesRaises(packages) ==
  \/ ~check_type_dict_ok(packages)
  \/ \E k \in 1..Len(packages.items) :
       \/ ~check_type_str_ok(PyStr(packages.items[k][1]))
       \/ \E n \in 1..Len(packages.items[k][2]) :
            ~check_type_str_ok(PyStr(packages.items[k][2][n]))

\* NixEnv.__init__: AnsibleModule checks `config` and `packages`
NixEnv_init ==
  /\ prog = "env" /\ pc = "init"
  /\ IF CheckTypeConfigRaises(raw.config) \/ CheckTypePackagesRaises(raw.packages)
       THEN /\ pc' = "failed" /\ error' = "validation"
            /\ UNCHANGED params
       ELSE /\ pc' = "get_bin_path" /\ error' = error
            /\ params' = [params EXCEPT !.config = CheckTypeConfig(raw.config),
                                        !.packages = raw.packages]
  /\ changed' = FALSE
  /\ UNCHANGED <<prog, check_mode, raw, bin_path, listed, idx, calls, target,
                 target0, files, config_path, defexpr_path, run, history>>

\* NixEnv.run: get_bin_path('nix-env', required=True)
NixEnv_get_bin_path ==
  /\ prog = "env" /\ pc = "get_bin_path"
  /\ \E found \in BOOLEAN :
       IF found
         THEN bin_path' = S_nix_env /\ pc' = "make_config" /\ error' = error
         ELSE bin_path' = bin_path /\ pc' = "failed" /\ error' = "bin_path"
  /\ UNCHANGED <<prog, check_mode, raw, params, changed, listed, idx, calls, target,
                 target0, files, config_path, defexpr_path, run, history>>

\* tempfile.NamedTemporaryFile(delete=False): a name no file has yet
NamedTemporaryFile == S_tmp \o <<Digits[Len(files) + 1]>>

\* make_config: the config text is written to a temporary file, or fail_json
make_config ==
  /\ prog = "env" /\ pc = "make_config"
  /\ \E ok \in BOOLEAN :
       IF ok
         THEN /\ files' = Append(files, [path |-> NamedTemporaryFile,
                                         content |-> params.config.v])
              /\ config_path' = NamedTemporaryFile
              /\ pc' = "make_defexpr" /\ error' = error
         ELSE /\ pc' = "failed" /\ error' = "tempfile"
              /\ UNCHANGED <<files, config_path>>
  /\ UNCHANGED <<prog, check_mode, raw, params, bin_path, changed, listed, idx,
                 calls, target, target0, defexpr_path, run, history>>

\* make_defexpr: '{channel} = import <{channel}> {args};'.format(..., args='{}')
lexpr(channel) ==
  channel \o S_import_open \o channel \o S_import_close \o S_braces \o <<";">>

\* a join with nothing between the names
JoinNamesNoBlank(names) == Join(<<>>, names)

\* make_defexpr: ' '.join(names)
JoinNames(names) == Join(<<" ">>, names)

\* make_defexpr: 'inherit ({channel}) {names};'.format(...)
iexpr(channel, names) ==
  S_inherit_open \o channel \o S_inherit_close \o JoinNames(names) \o <<";">>

\* make_defexpr: the dedented template, formatted with the two joined blocks
DefexprContent(packages) ==
  LET lblock == [k \in 1..Len(packages.items) |-> lexpr(packages.items[k][1])]
      iblock == [k \in 1..Len(packages.items) |->
                   iexpr(packages.items[k][1], packages.items[k][2])]
  IN  S_let_open \o Join(S_indent, lblock) \o S_in_open \o Join(S_indent, iblock)
        \o S_close

\* make_defexpr: the expression is written to a temporary file, or fail_json
make_defexpr ==
  /\ prog = "env" /\ pc = "make_defexpr"
  /\ \E ok \in BOOLEAN :
       IF ok
         THEN /\ files' = Append(files, [path |-> NamedTemporaryFile,
                                         content |-> DefexprContent(params.packages)])
              /\ defexpr_path' = NamedTemporaryFile
              /\ pc' = "run_install" /\ error' = error
         ELSE /\ pc' = "failed" /\ error' = "tempfile"
              /\ UNCHANGED <<files, defexpr_path>>
  /\ UNCHANGED <<prog, check_mode, raw, params, bin_path, changed, listed, idx,
                 calls, target, target0, config_path, run, history>>

\* run_install: dry_run = ('--dry-run') if self.module.check_mode else ()
\* (a parenthesised str, not a one-element tuple)
dry_run == IF check_mode THEN PyStr(S_dry_run) ELSE [t |-> "tuple", v |-> <<>>]

\* *x inside a list display: the items x yields when iterated; a str yields its
\* characters
Star(x) == IF x.t = "str" THEN [k \in 1..Len(x.v) |-> <<x.v[k]>>] ELSE x.v

\* args = [self.bin_path, *dry_run, '-f', defexpr_path, '-ir']
InstallArgs == <<bin_path>> \o Star(dry_run) \o <<S_f, defexpr_path, S_ir>>

\* a run_install that sets changed whatever dry_run is
NotDryRunAlways == TRUE

\* run_install: `if not dry_run`
NotDryRun == dry_run.v = <<>>

\* run_install: the install command, then self.result['changed'] = True
run_install ==
  /\ prog = "env" /\ pc = "run_install"
  /\ \E rc \in ExitCodes :
       /\ RunCommand(InstallArgs, <<S_NIXPKGS_CONFIG, config_path>>, rc, "exit_json")
       /\ changed' = IF pc' = "exit_json" /\ NotDryRun THEN TRUE ELSE changed
  /\ UNCHANGED <<prog, check_mode, raw, params, bin_path, listed, idx, target0,
                 files, config_path, defexpr_path, run, history>>

----------------------------------------------------------------------------
(* The process. *)

Ended == pc \in {"done", "failed", "crashed"}

\* main(), run once more by the caller with the same arguments on the same target
main ==
  /\ Ended /\ run < MaxRuns
  /\ history' = Append(history, [pc |-> pc, calls |-> calls, target |-> target,
                                 target0 |-> target0, changed |-> changed,
                                 error |-> error])
  /\ run' = run + 1
  /\ pc' = "init"
  /\ params' = NoParams
  /\ bin_path' = <<>>
  /\ changed' = FALSE
  /\ listed' = <<>>
  /\ idx' = 0
  /\ calls' = <<>>
  /\ target0' = target
  /\ config_path' = <<>>
  /\ defexpr_path' = <<>>
  /\ error' = ""
  /\ UNCHANGED <<prog, check_mode, raw, target, files>>

Init ==
  /\ prog \in {"channel", "env"}
  /\ check_mode \in BOOLEAN
  /\ raw \in IF prog = "channel"
               THEN {[channels |-> c, config |-> PyNone, packages |-> NoArgs]
                     : c \in ChannelArgs}
               ELSE {[channels |-> NoArgs, config |-> c, packages |-> p]
                     : c \in ConfigArgs, p \in PackageArgs}
  /\ params = NoParams
  /\ pc = "init"
  /\ bin_path = <<>>
  /\ changed = FALSE
  /\ listed = <<>>
  /\ idx = 0
  /\ calls = <<>>
  /\ target \in IF prog = "channel" THEN Targets ELSE {<<>>}
  /\ target0 = target
  /\ files = <<>>
  /\ config_path = <<>>
  /\ defexpr_path = <<>>
  /\ error = ""
  /\ run = 1
  /\ history = <<>>

Next ==
  \/ NixChannel_init
  \/ NixChannel_get_bin_path
  \/ run_list
  \/ run_remove_check_mode
  \/ run_remove_begin
  \/ run_remove_unpack_error
  \/ run_remove_step
  \/ run_remove_end
  \/ run_add_check_mode
  \/ run_add_begin
  \/ run_add_join_error
  \/ run_add_step
  \/ run_add_end
  \/ run_update_check_mode
  \/ run_update
  \/ NixEnv_init
  \/ NixEnv_get_bin_path
  \/ make_config
  \/ make_defexpr
  \/ run_install
  \/ exit_json
  \/ main

Spec == Init /\ [][Next]_vars

----------------------------------------------------------------------------
(* What the claims speak of. *)

\* the argument lists of a run's invocations, in order
Args(cs) == [k \in 1..Len(cs) |-> cs[k].args]

\* a sequence of channels as a set of pairs <<name, url>>
AsSet(t) == {t[k] : k \in 1..Len(t)}

\* the declared mapping as a set of pairs <<name, url>>
Declared == {<<raw.channels.items[k][1], raw.channels.items[k][2].v>>
             : k \in 1..Len(raw.channels.items)}

\* the declared names
DeclaredNames == {raw.channels.items[k][1] : k \in 1..Len(raw.channels.items)}

\* a `channels` argument that is no mapping of str to str
Malformed(channels) ==
  \/ channels.shape # "dict"
  \/ \E k \in 1..Len(channels.items) : channels.items[k][2].t # "str"

\* a command that changes the target: a channel remove, add or update, or an install
\* whose arguments hold no --dry-run
Mutating(args) ==
  \/ args[1] = S_nix_channel /\ args[2] \in {S_remove, S_add, S_update}
  \/ args[1] = S_nix_env /\ ~\E j \in 1..Len(args) : args[j] = S_dry_run

RECURSIVE Replay(_, _)
\* the target after the commands cs, those that exited 0 taking effect
Replay(t, cs) ==
  IF cs = <<>> THEN t
  ELSE Replay(IF cs[1].rc = 0 THEN Effect(t, cs[1].args) ELSE t, Tail(cs))

\* the number of invocations of cs whose second argument is op
Count(cs, op) == Cardinality({k \in 1..Len(cs) : cs[k].args[2] = op})

\* the runs so far, the current one last
Runs == Append(history, [pc |-> pc, calls |-> calls, target |-> target,
                         target0 |-> target0, changed |-> changed, error |-> error])

\* the content of the file at path
FileContent(path) == files[CHOOSE k \in 1..Len(files) : files[k].path = path].content

\* the lines of a generated expression strictly between its lines `from` and `to`,
\* each without its indentation
Block(lines, from, to) ==
  LET a == CHOOSE k \in 1..Len(lines) : lines[k] = from
      b == CHOOSE k \in 1..Len(lines) : lines[k] = to
  IN  [k \in 1..(b - a - 1) |-> LStrip(lines[a + k])]

\* the bindings of a block: its lines that are not blank
Bindings(block) == SelectSeq(block, LAMBDA l : l # <<>>)

L_let == <<"l","e","t">>
L_in == <<"i","n"," ","{">>
L_end == <<"}">>

\* `<channel> = import <<channel>> {};`
ImportBinding(channel) == channel \o <<" ","="," ","i","m","p","o","r","t"," ","<">> \o channel \o <<">"," ","{","}",";">>

\* line is `inherit (<channel>) <names>;` with <names> the names, one blank between
IsInheritBinding(line, channel, names) ==
  LET head == <<"i","n","h","e","r","i","t"," ","(">> \o channel \o <<")"," ">>
  IN  /\ Len(line) >= Len(head) + 1
      /\ SubSeq(line, 1, Len(head)) = head
      /\ line[Len(line)] = ";"
      /\ SplitOn(SubSeq(line, Len(head) + 1, Len(line) - 1), " ")
           = IF names = <<>> THEN << <<>> >> ELSE names

----------------------------------------------------------------------------
(* The claims. *)

\* C1: a Channel Reconciler run outside check mode that ends in success leaves the
\* target with exactly the declared channels, by name and URL: no channel that was
\* only observed survives, every declared entry is there with its declared URL.
C1_Converges ==
  (prog = "channel" /\ ~check_mode /\ pc = "done")
    => /\ AsSet(target) = Declared
       /\ Len(target) = Cardinality(DeclaredNames)

\* C1, reached: a successful run that started with a channel nobody declared and with a declared channel at another URL
C1_Witness ==
  /\ prog = "channel" /\ ~check_mode /\ pc = "done"
  /\ \E k \in 1..Len(target0) : target0[k][1] \notin DeclaredNames
  /\ \E k \in 1..Len(target0) : target0[k][1] \in DeclaredNames /\ target0[k] \notin Declared

\* C2: a malformed `channels` argument (a value that is a number, say) fails
\* validation before any external command: nothing is invoked, the target is left
\* as it was, and the run ends neither in success nor in an error raised later,
\* while a command is built or run.
C2_MalformedFailsValidation ==
  (prog = "channel" /\ Malformed(raw.channels))
    => /\ calls = <<>>
       /\ target = target0
       /\ pc \notin {"done", "crashed"}
       /\ error \notin {"command", "exception"}

\* C3: in check mode the Channel Reconciler invokes nothing but the list command,
\* and it at most once; the target stays as it was; a run that ends in success has
\* invoked the list command exactly once and reports changed = false.
C3_CheckMode ==
  (prog = "channel" /\ check_mode)
    => /\ \A k \in 1..Len(calls) : calls[k].args = <<S_nix_channel, S_list>>
       /\ Len(calls) <= 1
       /\ target = target0
       /\ changed = FALSE
       /\ pc \in {"run_remove", "run_add", "run_update", "exit_json", "done"}
            => Len(calls) = 1

\* C3, reached: a successful check-mode run on a target of two channels that differs from the two declared
C3_Witness ==
  /\ prog = "channel" /\ check_mode /\ pc = "done"
  /\ Len(target0) = 2 /\ Len(raw.channels.items) = 2
  /\ AsSet(target0) # Declared

\* C4: the install command is invoked exactly once by a run that ends in success;
\* in check mode its arguments are [binary, "--dry-run", "-f", path, "-ir"], outside
\* check mode [binary, "-f", path, "-ir"].
C4_InstallArgv ==
  (prog = "env" /\ pc = "done")
    => /\ Len(calls) = 1
       /\ calls[1].args = IF check_mode
                            THEN <<S_nix_env, S_dry_run, S_f, defexpr_path, S_ir>>
                            ELSE <<S_nix_env, S_f, defexpr_path, S_ir>>

\* C5: the generated expression holds, in the order of the channel keys, one import
\* binding `<channel> = import <<channel>> {};` per key in its let block and one
\* binding `inherit (<channel>) <names>;` per key in its in block, <names> being the
\* declared names of the channel in their order, one blank between two, duplicates
\* kept.
C5_Defexpr ==
  (prog = "env" /\ defexpr_path # <<>>)
    => LET items == raw.packages.items
           lines == SplitLines(FileContent(defexpr_path))
           lets == Bindings(Block(lines, L_let, L_in))
           ins == Bindings(Block(lines, L_in, L_end))
       IN  /\ lines[1] = L_let
           /\ lines[Len(lines)] = L_end
           /\ Len(lets) = Len(items)
           /\ Len(ins) = Len(items)
           /\ \A k \in 1..Len(items) :
                /\ lets[k] = ImportBinding(items[k][1])
                /\ IsInheritBinding(ins[k], items[k][1], items[k][2])

\* C5, reached: an expression written for two channels, keys out of alphabetical order, names unsorted, one name twice
C5_Witness ==
  /\ prog = "env" /\ defexpr_path # <<>>
  /\ Len(raw.packages.items) = 2
  /\ raw.packages.items[1][1] = <<"b">>
  /\ raw.packages.items[1][2] = << <<"y","z">>, <<"x">> >>
  /\ raw.packages.items[2][2] = << <<"x">>, <<"x">> >>

\* C6: at every successful exit, changed is true exactly when the run invoked a
\* command that changes the target.
C6_ChangedIffMutating ==
  pc = "done" => (changed <=> \E k \in 1..Len(calls) : Mutating(calls[k].args))

\* C7: an invocation that exits non-zero is the last of its run: the run ends in
\* fail_json, nothing is invoked after it, no success is reported, and the target
\* holds the effects of the commands that completed before it; when the first add
\* fails after the removes, the target has no channels.
C7_AbortNoRollback ==
  \A r \in 1..Len(Runs) : \A k \in 1..Len(Runs[r].calls) :
    Runs[r].calls[k].rc # 0
      => /\ k = Len(Runs[r].calls)
         /\ Runs[r].pc = "failed"
         /\ Runs[r].error = "command"
         /\ Runs[r].target = Replay(Runs[r].target0, SubSeq(Runs[r].calls, 1, k - 1))
         /\ (Runs[r].calls[k].args[2] = S_add /\ Count(Runs[r].calls, S_add) = 1)
              => Runs[r].target = <<>>

\* C7, reached: the first add exits non-zero after the list and two removes: the target has no channels
C7_Witness ==
  /\ prog = "channel" /\ pc = "failed"
  /\ Len(target0) = 2
  /\ Len(calls) = 4
  /\ calls[4].args[2] = S_add /\ calls[4].rc # 0
  /\ target = <<>>

C9_Sequence ==
  (prog = "channel" /\ ~check_mode /\ pc = "done")
    => /\ Args(calls) =
            << <<S_nix_channel, S_list>> >>
            \o [k \in 1..Len(target0) |-> <<S_nix_channel, S_remove, target0[k][1]>>]
            \o [k \in 1..Len(raw.channels.items) |->
                  <<S_nix_channel, S_add, raw.channels.items[k][2].v,
                    raw.channels.items[k][1]>>]
            \o << <<S_nix_channel, S_update>> >>
       /\ \A k \in 1..Len(calls) : calls[k].rc = 0
       /\ changed = TRUE

\* C9, reached: a successful run that removed two channels and added two
C9_Witness ==
  /\ prog = "channel" /\ ~check_mode /\ pc = "done"
  /\ Len(target0) = 2 /\ Len(raw.channels.items) = 2
  /\ target0[1][1] = <<"b">> /\ raw.channels.items[1][1] = <<"b">>

\* C10: when two runs in a row outside check mode, with the same `channels`, both
\* end in success, the target after the second is the target after the first, the
\* declared set; and the second has again invoked --remove once per channel it
\* found, --add once per declared entry and --update once.
C10_Idempotent ==
  (prog = "channel" /\ ~check_mode /\ pc = "done" /\ run >= 2
     /\ history[run - 1].pc = "done")
    => /\ AsSet(target) = AsSet(history[run - 1].target)
       /\ AsSet(target) = Declared
       /\ Len(target) = Len(history[run - 1].target)
       /\ Count(calls, S_remove) = Len(history[run - 1].target)
       /\ Count(calls, S_remove) = Len(raw.channels.items)
       /\ Count(calls, S_add) = Len(raw.channels.items)
       /\ Count(calls, S_update) = 1

\* C10, reached: a second successful run, after a first that had to change the target
C10_Witness ==
  /\ prog = "channel" /\ ~check_mode /\ pc = "done" /\ run = 2
  /\ history[1].pc = "done"
  /\ Len(raw.channels.items) = 2
  /\ AsSet(history[1].target0) # Declared
  /\ Count(calls, S_remove) = 2

====
